---- MODULE Spec2Model ----
(***************************************************************************)
(* Model of the AEO report front end (het4399/AEO).                        *)
(*                                                                         *)
(* The scoring / provenance logic lives in the body of the React component *)
(* ResultsDisplay (src/src/components/ResultsDisplay.tsx).  It is written  *)
(* in untyped JavaScript style (`(x as any).a?.b || 0`), so the model      *)
(* carries a small JavaScript value layer: undefined, null, booleans,      *)
(* finite numbers (exact rationals), NaN, strings (sequences of one-       *)
(* character strings) and objects (functions from property names to        *)
(* values), with the coercions the component's expressions rely on.        *)
(***************************************************************************)
EXTENDS Integers, Sequences, FiniteSets, TLC

VARIABLES
    result,     \* the payload: the prop of ResultsDisplay, the state of App
    pc,         \* where the evaluation of ResultsDisplay stands
    view,       \* the eleven metrics on screen, value and badge
    botName,    \* the argument of a call of getAIBotScore
    botScore,   \* what that call returned
    panels,     \* what ResultsDisplay shows besides the metrics
    csv,        \* the text of the last CSV download
    env,        \* process.env of the build
    now,        \* the day new Date() falls on
    host,       \* who renders ResultsDisplay: "App", or "none" (stand-alone)
    loading,    \* App state
    error,      \* App state
    url,        \* AnalysisForm state: the text of the URL input
    inflight,   \* the calls of apiService.analyzeUrl that have not settled
    serp,       \* SerpPanel state, and its calls of serpLookup not settled
    torn,       \* the calls of serpLookup pending for an unmounted SerpPanel
    late,       \* a state setter has been called on an unmounted component
    response,   \* what axios.post answers a call of analyzeUrl with
    settled     \* how that call of analyzeUrl ended

\* process.env and the clock.
envVars == <<env, now>>

\* SerpPanel and the requests it has started.
serpVars == <<serp, torn, late>>

\* One call of apiService.analyzeUrl.
apiVars == <<response, settled>>

\* The state of App, of its form and of what it renders and calls.
appVars == <<host, loading, error, url, inflight, serpVars, apiVars>>

vars == <<result, pc, view, botName, botScore, panels, csv, envVars, appVars>>

(***************************************************************************)
(* Bounds of the model.                                                    *)
(***************************************************************************)
\* Module scores are sampled on a grid of Levels + 1 points over [0, 100].
Levels == 2

\* The days a mounted report is followed over, after the day of its mount.
MaxDays == 1

\* The calls of analyzeUrl that may be pending at once.
MaxInflight == 2

\* The calls of serpLookup that may be pending at once, the ones of
\* unmounted panels included.
MaxSerp == 2

(***************************************************************************)
(* JavaScript values.                                                      *)
(***************************************************************************)
Undef == [t |-> "undefined"]

Null == [t |-> "null"]

NaN == [t |-> "NaN"]

Bool(b) == [t |-> "boolean", b |-> b]

Str(s) == [t |-> "string", s |-> s]

Obj(f) == [t |-> "object", f |-> f]

RECURSIVE GCD(_, _)
GCD(a, b) == IF b = 0 THEN a ELSE GCD(b, a % b)

\* The finite number n/d (d > 0, n >= 0), in lowest terms.
Num(n, d) ==
    LET g == GCD(n, d)
    IN  [t |-> "number", n |-> n \div g, d |-> d \div g]

IntNum(n) == Num(n, 1)

IsNum(v) == v.t = "number"

IsNullish(v) == v.t \in {"undefined", "null"}

Digits == <<"0", "1", "2", "3", "4", "5", "6", "7", "8", "9">>

DigitChars == {Digits[i] : i \in 1..10}

DigitVal(c) == (CHOOSE i \in 1..10 : Digits[i] = c) - 1

WhiteSpace == {" ", "\n", "\t"}

RECURSIVE NatToString(_)
NatToString(n) ==
    IF n < 10 THEN <<Digits[n + 1]>>
    ELSE NatToString(n \div 10) \o <<Digits[(n % 10) + 1]>>

RECURSIVE Pow10(_)
Pow10(k) == IF k = 0 THEN 1 ELSE 10 * Pow10(k - 1)

RECURSIVE DigitsToNat(_)
DigitsToNat(s) ==
    IF s = <<>> THEN 0
    ELSE 10 * DigitsToNat(SubSeq(s, 1, Len(s) - 1)) + DigitVal(s[Len(s)])

RECURSIVE TrimLeft(_)
TrimLeft(s) ==
    IF s # <<>> /\ s[1] \in WhiteSpace THEN TrimLeft(Tail(s)) ELSE s

RECURSIVE TrimRight(_)
TrimRight(s) ==
    IF s # <<>> /\ s[Len(s)] \in WhiteSpace
    THEN TrimRight(SubSeq(s, 1, Len(s) - 1))
    ELSE s

\* StringToNumber for the strings of the model's alphabet (digits, ".",
\* white space and letters that spell no numeric literal): white space is
\* trimmed, "" is 0, an unsigned decimal literal is its value, anything
\* else is NaN.
StringToNumber(s) ==
    LET u    == TrimRight(TrimLeft(s))
        dots == {i \in 1..Len(u) : u[i] = "."}
    IN  IF u = <<>> THEN IntNum(0)
        ELSE IF \E i \in 1..Len(u) : u[i] \notin DigitChars \cup {"."} THEN NaN
        ELSE IF Cardinality(dots) > 1 \/ Len(u) = Cardinality(dots) THEN NaN
        ELSE IF dots = {} THEN IntNum(DigitsToNat(u))
        ELSE LET p    == CHOOSE i \in dots : TRUE
                 ip   == SubSeq(u, 1, p - 1)
                 fp   == SubSeq(u, p + 1, Len(u))
             IN  Num(DigitsToNat(ip) * Pow10(Len(fp)) + DigitsToNat(fp),
                     Pow10(Len(fp)))

\* Number::toString for the numbers the component can convert: integers and
\* odd multiples of 1/2 (every payload number of the model is a multiple of
\* 1/2, and sums of such numbers are too).
NumberToString(v) ==
    IF v.d = 1 THEN NatToString(v.n)
    ELSE NatToString(v.n \div v.d) \o <<".">>
             \o NatToString(((v.n % v.d) * 10) \div v.d)

ToStr(v) ==
    CASE v.t = "string"    -> v.s
      [] v.t = "number"    -> NumberToString(v)
      [] v.t = "NaN"       -> <<"N", "a", "N">>
      [] v.t = "undefined" -> <<"u", "n", "d", "e", "f", "i", "n", "e", "d">>
      [] v.t = "null"      -> <<"n", "u", "l", "l">>
      [] v.t = "boolean"   -> IF v.b THEN <<"t", "r", "u", "e">>
                              ELSE <<"f", "a", "l", "s", "e">>
      [] OTHER             -> <<"[", "o", "b", "j", "e", "c", "t", " ",
                                "O", "b", "j", "e", "c", "t", "]">>

ToNumber(v) ==
    CASE v.t = "number"    -> v
      [] v.t = "NaN"       -> NaN
      [] v.t = "undefined" -> NaN
      [] v.t = "null"      -> IntNum(0)
      [] v.t = "boolean"   -> IF v.b THEN IntNum(1) ELSE IntNum(0)
      [] v.t = "string"    -> StringToNumber(v.s)
      [] OTHER             -> NaN

\* ToBoolean.
Truthy(v) ==
    CASE v.t = "number"    -> v.n # 0
      [] v.t = "NaN"       -> FALSE
      [] v.t = "undefined" -> FALSE
      [] v.t = "null"      -> FALSE
      [] v.t = "boolean"   -> v.b
      [] v.t = "string"    -> v.s # <<>>
      [] OTHER             -> TRUE

\* a || b
Or(a, b) == IF Truthy(a) THEN a ELSE b

\* a && b
And(a, b) == IF Truthy(a) THEN b ELSE a

\* a ?? b
Coalesce(a, b) == IF IsNullish(a) THEN b ELSE a

\* a + b: concatenation when either operand is a string (or an object, whose
\* primitive is a string), else numeric.
Add(a, b) ==
    IF {a.t, b.t} \cap {"string", "object"} # {}
    THEN Str(ToStr(a) \o ToStr(b))
    ELSE LET x == ToNumber(a)
             y == ToNumber(b)
         IN  IF IsNum(x) /\ IsNum(y) THEN Num(x.n * y.d + y.n * x.d, x.d * y.d)
             ELSE NaN

\* a / k for a positive integer literal k.
Div(a, k) ==
    LET x == ToNumber(a)
    IN  IF IsNum(x) THEN Num(x.n, x.d * k) ELSE NaN

\* Math.round: floor(x + 1/2).
MathRound(a) ==
    LET x == ToNumber(a)
    IN  IF IsNum(x)
        THEN IntNum((x.n \div x.d) + (IF 2 * (x.n % x.d) >= x.d THEN 1 ELSE 0))
        ELSE NaN

\* v.k and v?.k on a value that is not undefined/null: an own property of an
\* object, undefined otherwise (the model reads no built-in property).
Get(v, k) == IF v.t = "object" /\ k \in DOMAIN v.f THEN v.f[k] ELSE Undef

\* v.k throws a TypeError exactly when v is undefined or null.
DerefThrows(v) == IsNullish(v)

UpperCase == <<"A", "B", "C", "D", "E", "F", "G", "H", "I", "J", "K", "L", "M",
               "N", "O", "P", "Q", "R", "S", "T", "U", "V", "W", "X", "Y", "Z">>

LowerCase == <<"a", "b", "c", "d", "e", "f", "g", "h", "i", "j", "k", "l", "m",
               "n", "o", "p", "q", "r", "s", "t", "u", "v", "w", "x", "y", "z">>

\* String.prototype.toLowerCase.
ToLowerCase(s) ==
    [i \in 1..Len(s) |->
        IF \E j \in 1..26 : UpperCase[j] = s[i]
        THEN LowerCase[CHOOSE j \in 1..26 : UpperCase[j] = s[i]]
        ELSE s[i]]

\* The property name spelled by a string value.
RECURSIVE Key(_)
Key(s) == IF s = <<>> THEN "" ELSE s[1] \o Key(Tail(s))

(***************************************************************************)
(* ResultsDisplay: derived metrics (ResultsDisplay.tsx:36-134).            *)
(***************************************************************************)
staticData ==
    [overallScore    |-> IntNum(72),
     aiPresenceScore |-> IntNum(68),
     competitorScore |-> IntNum(94),
     strategyScore   |-> IntNum(55),
     chatgptScore    |-> IntNum(85),
     geminiScore     |-> IntNum(20),
     claudeScore     |-> IntNum(100),
     answerability   |-> IntNum(46),
     knowledgeBase   |-> IntNum(100),
     structuredData  |-> IntNum(23),
     aiCrawlerAccess |-> IntNum(50)]

\* const detailedAnalysis = result.detailed_analysis || {}
detailedAnalysis(r) == Or(Get(r, "detailed_analysis"), Obj(<<>>))

\* !!da[m] && da[m].score !== undefined
moduleHasScore(r, m) ==
    LET c == Get(detailedAnalysis(r), m)
    IN  Truthy(c) /\ Get(c, "score") # Undef

\* !!da.ai_presence && da.ai_presence.checks  (a value, not a boolean)
botFlag(r) ==
    LET c == Get(detailedAnalysis(r), "ai_presence")
    IN  And(Bool(Truthy(c)), Get(c, "checks"))

useRealData(r) ==
    [overallScore        |-> TRUE,
     aiPresence          |-> moduleHasScore(r, "ai_presence"),
     competitorLandscape |-> moduleHasScore(r, "competitor_analysis"),
     strategyReview      |-> TRUE,
     chatgptScore        |-> botFlag(r),
     geminiScore         |-> botFlag(r),
     claudeScore         |-> botFlag(r),
     answerability       |-> moduleHasScore(r, "answerability"),
     knowledgeBase       |-> moduleHasScore(r, "knowledge_base"),
     structuredData      |-> TRUE,
     aiCrawlerAccess     |-> moduleHasScore(r, "crawler_accessibility")]

\* realStructuredDataScore with the unused placeholder staticData.structuredData
\* as the fallback, as the other rows do.
realStructuredDataScore_placeholder(r) ==
    LET sd == Get(r, "structured_data")
    IN  IF Truthy(sd)
        THEN MathRound(Div(Add(Add(Get(sd, "coverage_score"),
                                   Get(sd, "quality_score")),
                               Get(sd, "completeness_score")), 3))
        ELSE staticData.structuredData

realStructuredDataScore(r) ==
    LET sd == Get(r, "structured_data")
    IN  IF Truthy(sd)
        THEN MathRound(Div(Add(Add(Get(sd, "coverage_score"),
                                   Get(sd, "quality_score")),
                               Get(sd, "completeness_score")), 3))
        ELSE IntNum(0)

\* da.ai_presence?.checks
aiChecks(r) ==
    LET c == Get(detailedAnalysis(r), "ai_presence")
    IN  IF IsNullish(c) THEN Undef ELSE Get(c, "checks")

gptbot == <<"g", "p", "t", "b", "o", "t">>

googleExtended ==
    <<"g", "o", "o", "g", "l", "e", "-", "e", "x", "t", "e", "n", "d", "e", "d">>

claudebot == <<"c", "l", "a", "u", "d", "e", "b", "o", "t">>

\* getAIBotScore with the robots key built from the name as given.
getAIBotScore_caseSensitive(r, name) ==
    IF ~Truthy(aiChecks(r))
    THEN CASE ToLowerCase(name) = gptbot         -> staticData.chatgptScore
           [] ToLowerCase(name) = googleExtended -> staticData.geminiScore
           [] ToLowerCase(name) = claudebot      -> staticData.claudeScore
           [] OTHER                              -> IntNum(50)
    ELSE LET robotsKey == "robots_" \o Key(name)
             isAllowed == Get(aiChecks(r), robotsKey)
         IN  IF isAllowed = Bool(TRUE) THEN IntNum(85)
             ELSE IF isAllowed = Bool(FALSE) THEN IntNum(20)
             ELSE IntNum(50)

\* getAIBotScore falling back only when the ai_presence container is missing
\* (checks read with ?.), not when its checks are.
getAIBotScore_containerGuard(r, name) ==
    IF ~Truthy(Get(detailedAnalysis(r), "ai_presence"))
    THEN CASE ToLowerCase(name) = gptbot         -> staticData.chatgptScore
           [] ToLowerCase(name) = googleExtended -> staticData.geminiScore
           [] ToLowerCase(name) = claudebot      -> staticData.claudeScore
           [] OTHER                              -> IntNum(50)
    ELSE LET robotsKey == "robots_" \o Key(ToLowerCase(name))
             isAllowed == Get(aiChecks(r), robotsKey)
         IN  IF isAllowed = Bool(TRUE) THEN IntNum(85)
             ELSE IF isAllowed = Bool(FALSE) THEN IntNum(20)
             ELSE IntNum(50)

getAIBotScore(r, name) ==
    IF ~Truthy(aiChecks(r))
    THEN CASE ToLowerCase(name) = gptbot         -> staticData.chatgptScore
           [] ToLowerCase(name) = googleExtended -> staticData.geminiScore
           [] ToLowerCase(name) = claudebot      -> staticData.claudeScore
           [] OTHER                              -> IntNum(50)
    ELSE LET robotsKey == "robots_" \o Key(ToLowerCase(name))
             isAllowed == Get(aiChecks(r), robotsKey)
         IN  IF isAllowed = Bool(TRUE) THEN IntNum(85)
             ELSE IF isAllowed = Bool(FALSE) THEN IntNum(20)
             ELSE IntNum(50)

isUsingRealAIData(r) == Truthy(aiChecks(r))

\* The LIVE / STATIC badge next to a metric.
Label(live) == IF live THEN "LIVE" ELSE "STATIC"

\* da[m]?.score
optScore(r, m) ==
    LET c == Get(detailedAnalysis(r), m)
    IN  IF IsNullish(c) THEN Undef ELSE Get(c, "score")

\* process.env of a build without any REACT_APP_ setting.
NoEnv == Obj(<<>>)

\* String(process.env.REACT_APP_SHOW_DETAIL_SECTIONS || '').toLowerCase()
\*     === 'true'
showDetailSections ==
    ToLowerCase(ToStr(Or(Get(env, "REACT_APP_SHOW_DETAIL_SECTIONS"), Str(<<>>))))
        = <<"t", "r", "u", "e">>

crawlerEnabled ==
    ToLowerCase(ToStr(Or(Get(env, "REACT_APP_CRAWLER_ENABLED"), Str(<<>>))))
        = <<"t", "r", "u", "e">>

(***************************************************************************)
(* ResultsDisplay: the numbers and badges put on screen                    *)
(* (ResultsDisplay.tsx:142-474).                                           *)
(***************************************************************************)
\* overallCard with ?? in place of the truthiness test.
overallCard_nullish(r) ==
    [value |-> IF useRealData(r).overallScore /\ ~IsNullish(Get(r, "overall_score"))
               THEN Get(r, "overall_score")
               ELSE staticData.overallScore,
     label |-> Label(useRealData(r).overallScore)]

overallCard(r) ==
    [value |-> IF useRealData(r).overallScore /\ Truthy(Get(r, "overall_score"))
               THEN Get(r, "overall_score")
               ELSE staticData.overallScore,
     label |-> Label(useRealData(r).overallScore)]

\* aiPresenceCard keeping to the placeholder once a report is on screen.
aiPresenceCard_once(r) ==
    [value |-> IF useRealData(r).aiPresence
                  /\ Truthy(Get(detailedAnalysis(r), "ai_presence"))
                  /\ view.kind # "report"
               THEN MathRound(Get(Get(detailedAnalysis(r), "ai_presence"), "score"))
               ELSE staticData.aiPresenceScore,
     label |-> Label(useRealData(r).aiPresence)]

aiPresenceCard(r) ==
    [value |-> IF useRealData(r).aiPresence
                  /\ Truthy(Get(detailedAnalysis(r), "ai_presence"))
               THEN MathRound(Get(Get(detailedAnalysis(r), "ai_presence"), "score"))
               ELSE staticData.aiPresenceScore,
     label |-> Label(useRealData(r).aiPresence)]

competitorCard(r) ==
    [value |-> IF useRealData(r).competitorLandscape
                  /\ Truthy(Get(detailedAnalysis(r), "competitor_analysis"))
               THEN MathRound(Get(Get(detailedAnalysis(r), "competitor_analysis"),
                                  "score"))
               ELSE staticData.competitorScore,
     label |-> Label(useRealData(r).competitorLandscape)]

\* strategyCard with the rows' placeholders standing in for missing scores.
strategyCard_placeholders(r) ==
    [value |-> IF useRealData(r).strategyReview
               THEN MathRound(Div(
                        Add(Add(Add(Or(optScore(r, "answerability"),
                                       staticData.answerability),
                                    Or(optScore(r, "knowledge_base"),
                                       staticData.knowledgeBase)),
                                realStructuredDataScore(r)),
                            Or(optScore(r, "crawler_accessibility"),
                               staticData.aiCrawlerAccess)),
                        4))
               ELSE staticData.strategyScore,
     label |-> Label(useRealData(r).strategyReview)]

strategyCard(r) ==
    [value |-> IF useRealData(r).strategyReview
               THEN MathRound(Div(
                        Add(Add(Add(Or(optScore(r, "answerability"), IntNum(0)),
                                    Or(optScore(r, "knowledge_base"), IntNum(0))),
                                realStructuredDataScore(r)),
                            Or(optScore(r, "crawler_accessibility"), IntNum(0))),
                        4))
               ELSE staticData.strategyScore,
     label |-> Label(useRealData(r).strategyReview)]

botRow(r, name) ==
    [value |-> getAIBotScore(r, name),
     label |-> Label(isUsingRealAIData(r))]

\* answerabilityRow with 0 standing in for a missing score.
answerabilityRow_zero(r) ==
    [value |-> MathRound(Or(optScore(r, "answerability"), IntNum(0))),
     label |-> Label(useRealData(r).answerability)]

answerabilityRow(r) ==
    [value |-> MathRound(Or(optScore(r, "answerability"), staticData.answerability)),
     label |-> Label(useRealData(r).answerability)]

knowledgeBaseRow(r) ==
    [value |-> MathRound(Or(optScore(r, "knowledge_base"), staticData.knowledgeBase)),
     label |-> Label(useRealData(r).knowledgeBase)]

\* structuredDataRow with the badge following the presence of
\* structured_data.
structuredDataRow_presence(r) ==
    [value |-> realStructuredDataScore(r),
     label |-> Label(Truthy(Get(r, "structured_data")))]

structuredDataRow(r) ==
    [value |-> realStructuredDataScore(r),
     label |-> "LIVE"]

\* crawlerRow showing the placeholder in a build without the crawler.
crawlerRow_gated(r) ==
    [value |-> IF crawlerEnabled
               THEN Or(optScore(r, "crawler_accessibility"),
                       staticData.aiCrawlerAccess)
               ELSE staticData.aiCrawlerAccess,
     label |-> Label(useRealData(r).aiCrawlerAccess)]

crawlerRow(r) ==
    [value |-> Or(optScore(r, "crawler_accessibility"), staticData.aiCrawlerAccess),
     label |-> Label(useRealData(r).aiCrawlerAccess)]

\* Nothing but the metrics is on screen.
NoPanels == [kind |-> "none"]

\* What the report shows besides the metrics: the date of the Overall card,
\* the Crawl preview, and the detail sections that read the payload's
\* modules.  (The schema-details table, which needs structured_data.details,
\* is left out: no payload of the model carries details.)
Panels(r) ==
    [kind                 |-> "panels",
     date                 |-> now,
     crawl                |-> crawlerEnabled,
     schemaInformation    |-> showDetailSections,
     knowledgeBaseDetails |->
         showDetailSections /\ Truthy(Get(detailedAnalysis(r), "knowledge_base")),
     answerabilityDetails |->
         showDetailSections /\ Truthy(Get(detailedAnalysis(r), "answerability")),
     crawlerDetails       |->
         showDetailSections
             /\ Truthy(Get(detailedAnalysis(r), "crawler_accessibility"))]

\* The component's early return for a missing payload.
NoAnalysisData == [kind |-> "NoAnalysisData"]

\* Nothing on screen: before the first render, or after a render that threw.
NoView == [kind |-> "none"]

Report(r) ==
    [kind                |-> "report",
     overall             |-> overallCard(r),
     aiPresence          |-> aiPresenceCard(r),
     chatgpt             |-> botRow(r, gptbot),
     gemini              |-> botRow(r, googleExtended),
     claude              |-> botRow(r, claudebot),
     competitorLandscape |-> competitorCard(r),
     strategyReview      |-> strategyCard(r),
     answerability       |-> answerabilityRow(r),
     knowledgeBase       |-> knowledgeBaseRow(r),
     structuredData      |-> structuredDataRow(r),
     aiCrawlerAccess     |-> crawlerRow(r)]

ModuleNames ==
    {"ai_presence", "competitor_analysis", "knowledge_base", "answerability",
     "crawler_accessibility"}

\* Object.entries(x) throws a TypeError exactly when x is undefined or null.
ObjectEntriesThrows(x) == IsNullish(x)

\* The "AI Presence Checklist" block: result.ai_presence && ( ...
\* Object.entries(result.ai_presence.checks).map(...) ... )
checklistThrows(r) ==
    /\ Truthy(Get(r, "ai_presence"))
    /\ \/ DerefThrows(Get(r, "ai_presence"))
       \/ ObjectEntriesThrows(Get(Get(r, "ai_presence"), "checks"))

\* Every property read of the render that is not behind ?. , with the guard
\* the code puts in front of it.
renderThrows(r) ==
    \/ \E m \in ModuleNames :
          /\ Truthy(Get(detailedAnalysis(r), m))
          /\ DerefThrows(Get(detailedAnalysis(r), m))
    \/ /\ Truthy(Get(r, "structured_data"))
       /\ DerefThrows(Get(r, "structured_data"))
    \/ /\ Truthy(aiChecks(r))
       /\ \/ DerefThrows(Get(detailedAnalysis(r), "ai_presence"))
          \/ DerefThrows(aiChecks(r))
    \/ checklistThrows(r)

(***************************************************************************)
(* ExportPanel.toCSV (ResultsDisplay.tsx:1013-1031).                       *)
(***************************************************************************)
\* Object.keys(row): the property names of the row literal, in the order
\* they are written.
csvHeaders ==
    <<<<"u", "r", "l">>,
      <<"o", "v", "e", "r", "a", "l", "l", "_", "s", "c", "o", "r",
        "e">>,
      <<"g", "r", "a", "d", "e">>,
      <<"a", "i", "_", "p", "r", "e", "s", "e", "n", "c", "e">>,
      <<"c", "o", "m", "p", "e", "t", "i", "t", "o", "r", "_", "a",
        "n", "a", "l", "y", "s", "i", "s">>,
      <<"k", "n", "o", "w", "l", "e", "d", "g", "e", "_", "b", "a",
        "s", "e">>,
      <<"a", "n", "s", "w", "e", "r", "a", "b", "i", "l", "i", "t",
        "y">>,
      <<"c", "r", "a", "w", "l", "e", "r", "_", "a", "c", "c", "e",
        "s", "s", "i", "b", "i", "l", "i", "t", "y">>,
      <<"s", "t", "r", "u", "c", "t", "u", "r", "e", "d", "_", "d",
        "a", "t", "a", "_", "c", "o", "m", "p", "o", "s", "i", "t",
        "e">>,
      <<"a", "n", "a", "l", "y", "s", "i", "s", "_", "t", "i", "m",
        "e", "s", "t", "a", "m", "p">>>>

\* csvValues with || in place of ?? for the module scores.
csvValues_or(r) ==
    <<Get(r, "url"),
      Get(r, "overall_score"),
      Get(r, "grade"),
      Or(optScore(r, "ai_presence"), Str(<<>>)),
      Or(optScore(r, "competitor_analysis"), Str(<<>>)),
      Or(optScore(r, "knowledge_base"), Str(<<>>)),
      Or(optScore(r, "answerability"), Str(<<>>)),
      Or(optScore(r, "crawler_accessibility"), Str(<<>>)),
      LET sd == Or(Get(r, "structured_data"), Obj(<<>>))
      IN  MathRound(Div(Add(Add(Or(Get(sd, "coverage_score"), IntNum(0)),
                                Or(Get(sd, "quality_score"), IntNum(0))),
                            Or(Get(sd, "completeness_score"), IntNum(0))),
                        3)),
      Or(Get(r, "analysis_timestamp"), Str(<<>>))>>

\* The values of the row literal, in the order of csvHeaders.
csvValues(r) ==
    <<Get(r, "url"),
      Get(r, "overall_score"),
      Get(r, "grade"),
      Coalesce(optScore(r, "ai_presence"), Str(<<>>)),
      Coalesce(optScore(r, "competitor_analysis"), Str(<<>>)),
      Coalesce(optScore(r, "knowledge_base"), Str(<<>>)),
      Coalesce(optScore(r, "answerability"), Str(<<>>)),
      Coalesce(optScore(r, "crawler_accessibility"), Str(<<>>)),
      LET sd == Or(Get(r, "structured_data"), Obj(<<>>))
      IN  MathRound(Div(Add(Add(Or(Get(sd, "coverage_score"), IntNum(0)),
                                Or(Get(sd, "quality_score"), IntNum(0))),
                            Or(Get(sd, "completeness_score"), IntNum(0))),
                        3)),
      Or(Get(r, "analysis_timestamp"), Str(<<>>))>>

\* s.replace(/"/g, '""')
RECURSIVE doubleQuotes(_)
doubleQuotes(s) ==
    IF s = <<>> THEN <<>>
    ELSE (IF Head(s) = "\"" THEN <<"\"", "\"">> ELSE <<Head(s)>>)
             \o doubleQuotes(Tail(s))

\* needsQuotes testing for a comma only.
needsQuotes_commaOnly(v) == \E i \in 1..Len(v) : v[i] = ","

\* /[,\n\"]/.test(v)
needsQuotes(v) == \E i \in 1..Len(v) : v[i] \in {",", "\n", "\""}

\* csvField without the wrapping in quotes.
csvField_bare(x) == doubleQuotes(ToStr(x))

\* One value of the line: String(x) with its quotes doubled, wrapped in
\* quotes when it holds a comma, a line break or a quote.
csvField(x) ==
    LET v == doubleQuotes(ToStr(x))
    IN  IF needsQuotes(v) THEN <<"\"">> \o v \o <<"\"">> ELSE v

\* Array.prototype.join(',')
RECURSIVE join(_)
join(a) ==
    IF a = <<>> THEN <<>>
    ELSE IF Len(a) = 1 THEN a[1]
    ELSE a[1] \o <<",">> \o join(Tail(a))

toCSV(r) ==
    join(csvHeaders) \o <<"\n">>
        \o join([i \in 1..Len(csvHeaders) |-> csvField(csvValues(r)[i])])

(***************************************************************************)
(* Payloads: what the analysis service can answer (JSON), sampled.         *)
(***************************************************************************)
\* A JSON object: a property whose value is undefined is not there.
Fields(f) == Obj([k \in {j \in DOMAIN f : f[j] # Undef} |-> f[k]])

GridScores == {IntNum((100 * k) \div Levels) : k \in 0..Levels}

\* The grid, the score of the spec's examples (80) and a fractional one (85.5).
SampleScores == GridScores \cup {IntNum(80), Num(171, 2)}

\* A score field: missing, null, of the wrong type (the string "8"), or a
\* number.
ScoreVals == {Undef, Null, Str(<<"8">>)} \cup SampleScores

Module(score) == Fields([score |-> score])

\* A module container: missing, null, or an object with a score field.
ModuleVals == {Undef, Null} \cup {Module(sc) : sc \in ScoreVals}

\* A robots_<agent> check: missing, allowed, blocked, or not a boolean.
CheckVals == {Undef, Bool(TRUE), Bool(FALSE), Str(<<"y", "e", "s">>)}

Checks(g, e, c) ==
    Fields([robots_gptbot |-> g, robots_claudebot |-> c]
           @@ ("robots_google-extended" :> e))

ChecksVals ==
    {Undef, Null} \cup {Checks(g, e, c) : g \in CheckVals, e \in CheckVals,
                                           c \in CheckVals}

AIPresence(score, checks) == Fields([score |-> score, checks |-> checks])

AIPresenceVals ==
    {Undef, Null}
        \cup {AIPresence(sc, ch) : sc \in ScoreVals, ch \in ChecksVals}

StructuredDataScoreVals ==
    {Undef, Null, Str(<<"9", "0">>), IntNum(70), IntNum(80), IntNum(90),
     Num(171, 2)}

StructuredData(cov, qual, compl) ==
    Fields([coverage_score |-> cov, quality_score |-> qual,
            completeness_score |-> compl])

StructuredDataVals ==
    {Undef, Null}
        \cup {StructuredData(a, b, c) : a \in StructuredDataScoreVals,
                                        b \in StructuredDataScoreVals,
                                        c \in StructuredDataScoreVals}

OverallVals == {Undef, Null} \cup SampleScores

\* The legacy top-level ai_presence record of the payload.
TopAIPresenceVals ==
    {Undef, Null,
     AIPresence(IntNum(80), Undef),
     AIPresence(IntNum(80), Null),
     AIPresence(IntNum(80), Checks(Undef, Undef, Undef)),
     AIPresence(Undef, Checks(Bool(TRUE), Bool(FALSE), Undef))}

DetailedAnalysis(aip, comp, kb, ans, crawl) ==
    Fields([ai_presence |-> aip, competitor_analysis |-> comp,
            knowledge_base |-> kb, answerability |-> ans,
            crawler_accessibility |-> crawl])

Payload(overall, top, da, sd) ==
    Fields([overall_score |-> overall, ai_presence |-> top,
            detailed_analysis |-> da, structured_data |-> sd])

\* The payloads the model draws from: each family varies the inputs of one
\* group of metrics over its whole sample and leaves the others out.
StrategyPayloads ==
    {Payload(Undef, Undef, DetailedAnalysis(Undef, Undef, kb, ans, crawl), sd) :
        kb \in ModuleVals, ans \in ModuleVals, crawl \in ModuleVals,
        sd \in {Undef,
                StructuredData(IntNum(90), IntNum(80), IntNum(70)),
                StructuredData(IntNum(90), Undef, IntNum(70))}}

StructuredDataPayloads ==
    {Payload(Undef, Undef, DetailedAnalysis(Undef, Undef, Undef, ans, Undef), sd) :
        ans \in {Undef, Module(IntNum(80))}, sd \in StructuredDataVals}

PresencePayloads ==
    {Payload(Undef, Undef, DetailedAnalysis(aip, comp, Undef, Undef, Undef), Undef) :
        aip \in AIPresenceVals, comp \in ModuleVals}

OverallPayloads ==
    {Payload(o, top, da, Undef) :
        o \in OverallVals, top \in TopAIPresenceVals,
        da \in {Undef, Null, DetailedAnalysis(Undef, Undef, Undef, Undef, Undef),
                DetailedAnalysis(AIPresence(IntNum(80), Checks(Bool(TRUE), Undef, Undef)),
                                 Module(IntNum(80)), Module(IntNum(80)),
                                 Module(IntNum(80)), Module(IntNum(80)))}}

Payloads ==
    StrategyPayloads \cup StructuredDataPayloads \cup PresencePayloads
        \cup OverallPayloads

\* Bot names getAIBotScore is applied to: the three the component passes,
\* two spelled with capitals, and one it does not know.
\* A url: missing, null, plain, or with a comma, a quote or a line break.
UrlVals ==
    {Undef, Null, Str(<<"a", ".", "i", "o">>), Str(<<"a", ",", "b">>),
     Str(<<"a", "\"", "b">>), Str(<<"a", "\n", "b">>)}

GradeVals == {Undef, Str(<<"A">>), Str(<<"B", "+">>)}

TimestampVals == {Undef, Null, Str(<<"2", "0", "2", "5">>)}

\* A payload with the top-level fields the export reads.
ExportPayload(u, overall, grade, ts, da, sd) ==
    Fields([url |-> u, overall_score |-> overall, grade |-> grade,
            analysis_timestamp |-> ts, detailed_analysis |-> da,
            structured_data |-> sd])

\* The module containers the export tells apart.
ExportModuleVals ==
    {Undef, Null, Module(Null), Module(IntNum(0)), Module(IntNum(80))}

ExportPayloads ==
    {ExportPayload(u, o, g, ts, Undef, Undef) :
        u \in UrlVals, o \in OverallVals, g \in GradeVals, ts \in TimestampVals}
    \cup
    {ExportPayload(Str(<<"a", ".", "i", "o">>), IntNum(80), Str(<<"A">>), Undef,
                   DetailedAnalysis(a, b, c, d, e), Undef) :
        a \in ExportModuleVals, b \in ExportModuleVals, c \in ExportModuleVals,
        d \in ExportModuleVals, e \in ExportModuleVals}
    \cup
    {ExportPayload(Str(<<"a", ",", "b">>), IntNum(80), Undef, Undef,
                   DetailedAnalysis(a, b, b, a, b), sd) :
        a \in ModuleVals, b \in ModuleVals, sd \in {Undef, Null}}
    \cup
    {ExportPayload(Undef, Undef, Undef, Undef, Undef, sd) :
        sd \in StructuredDataVals}

\* A value of a REACT_APP_ variable: not set, or set to a text.
EnvVals ==
    {Undef, Str(<<"T", "R", "U", "E">>), Str(<<"f", "a", "l", "s", "e">>)}

Envs ==
    {Fields([REACT_APP_SHOW_DETAIL_SECTIONS |-> s, REACT_APP_CRAWLER_ENABLED |-> c]) :
        s \in EnvVals, c \in EnvVals}

EnvPayloads ==
    {Payload(o, Undef, DetailedAnalysis(aip, m, m, n, n), sd) :
        o \in {Undef, IntNum(80)},
        aip \in {Undef, AIPresence(IntNum(80), Checks(Bool(TRUE), Bool(FALSE), Undef))},
        m \in ExportModuleVals,
        n \in {Undef, Module(Num(171, 2))},
        sd \in {Undef, StructuredData(IntNum(90), IntNum(80), IntNum(70)),
                StructuredData(IntNum(90), Undef, IntNum(70))}}

BotNames ==
    {gptbot, googleExtended, claudebot,
     <<"G", "P", "T", "B", "o", "t">>,
     <<"C", "l", "a", "u", "d", "e", "B", "o", "t">>,
     <<"b", "i", "n", "g", "b", "o", "t">>}

\* A report is on screen.
Rendered == pc = "rendered" /\ view.kind = "report"

(***************************************************************************)
(* Spec: one mount of <ResultsDisplay result={result} />.                  *)
(***************************************************************************)
\* SerpPanel as it mounts: the useState initial values, nothing pending.
SerpIdle ==
    [keyword |-> <<>>, loading |-> FALSE, error |-> Str(<<>>), data |-> Null,
     pending |-> 0]

\* App before any analysis, its form empty; no call of the API made.
AppIdle ==
    /\ loading = FALSE
    /\ error = Null
    /\ url = <<>>
    /\ inflight = <<>>
    /\ serp = SerpIdle
    /\ torn = 0
    /\ late = FALSE
    /\ response = Undef
    /\ settled = Undef

\* ResultsDisplay on its own, in a build without settings.
StandAlone ==
    /\ host = "none"
    /\ AppIdle
    /\ env = NoEnv
    /\ now = 0
    /\ panels = NoPanels
    /\ csv = Undef

Init ==
    /\ result \in Payloads \cup {Null}
    /\ pc = "mount"
    /\ view = NoView
    /\ botName = <<>>
    /\ botScore = Undef
    /\ StandAlone

\* The function component runs once: the early return for a missing
\* payload, else the report, unless evaluating it throws.
Render ==
    /\ pc = "mount"
    /\ IF ~Truthy(result)
       THEN pc' = "rendered" /\ view' = NoAnalysisData /\ panels' = NoPanels
       ELSE IF renderThrows(result)
       THEN pc' = "threw" /\ view' = NoView /\ panels' = NoPanels
       ELSE pc' = "rendered" /\ view' = Report(result)
                /\ panels' = Panels(result)
    /\ UNCHANGED <<result, botName, botScore, csv, envVars, appVars>>

Next == Render

Spec == Init /\ [][Next]_vars

(***************************************************************************)
(* SpecBot: the AI Presence card, and getAIBotScore as a function of the   *)
(* payload and of the bot name it is given.                                *)
(***************************************************************************)
BotPayloads ==
    {Payload(Undef, Undef, DetailedAnalysis(aip, Undef, Undef, Undef, Undef), Undef) :
        aip \in AIPresenceVals}

InitBot ==
    /\ result \in BotPayloads
    /\ botName \in BotNames
    /\ pc = "mount"
    /\ view = NoView
    /\ botScore = Undef
    /\ StandAlone

GetAIBotScore ==
    /\ pc = "mount"
    /\ botScore' = getAIBotScore(result, botName)
    /\ pc' = "return"
    /\ UNCHANGED <<result, view, botName, panels, csv, envVars, appVars>>

NextBot == Render \/ GetAIBotScore

SpecBot == InitBot /\ [][NextBot]_vars

(***************************************************************************)
(* SpecCsv: a report and its Export panel; "Download CSV" calls toCSV().   *)
(***************************************************************************)
InitCsv ==
    /\ result \in ExportPayloads
    /\ pc = "mount"
    /\ view = NoView
    /\ botName = <<>>
    /\ botScore = Undef
    /\ StandAlone

\* onClick={() => download(toCSV(), 'analysis.csv', 'text/csv')}: the panel
\* is part of the report, so the button exists once the report is rendered.
DownloadCSV ==
    /\ Rendered
    /\ csv = Undef
    /\ csv' = Str(toCSV(result))
    /\ UNCHANGED <<result, pc, view, botName, botScore, panels, envVars, appVars>>

NextCsv == Render \/ DownloadCSV

SpecCsv == InitCsv /\ [][NextCsv]_vars

(***************************************************************************)
(* SpecEnv: a mounted report evaluated again and again, as React does on   *)
(* every re-render, while days pass and under every setting of the two     *)
(* REACT_APP_ toggles.                                                     *)
(***************************************************************************)
InitEnv ==
    /\ result \in EnvPayloads
    /\ pc = "mount"
    /\ view = NoView
    /\ botName = <<>>
    /\ botScore = Undef
    /\ host = "none"
    /\ AppIdle
    /\ env \in Envs
    /\ now = 0
    /\ panels = NoPanels
    /\ csv = Undef

\* The function component runs again on the same props.
Rerender ==
    /\ pc = "rendered"
    /\ IF ~Truthy(result)
       THEN pc' = "rendered" /\ view' = NoAnalysisData /\ panels' = NoPanels
       ELSE IF renderThrows(result)
       THEN pc' = "threw" /\ view' = NoView /\ panels' = NoPanels
       ELSE pc' = "rendered" /\ view' = Report(result)
                /\ panels' = Panels(result)
    /\ UNCHANGED <<result, botName, botScore, csv, envVars, appVars>>

\* A day passes: new Date() of the next evaluation falls on the next day.
Tick ==
    /\ pc = "rendered"
    /\ now < MaxDays
    /\ now' = now + 1
    /\ UNCHANGED <<result, pc, view, botName, botScore, panels, csv, env, appVars>>

\* The same report served by a build with other REACT_APP_ settings.
SetEnv ==
    /\ pc = "rendered"
    /\ env' \in Envs \ {env}
    /\ UNCHANGED <<result, pc, view, botName, botScore, panels, csv, now, appVars>>

NextEnv == Render \/ Rerender \/ Tick \/ SetEnv

SpecEnv == InitEnv /\ [][NextEnv]_vars

(***************************************************************************)
(* SpecApp: App (App.tsx) with its form (AnalysisForm), the analysis       *)
(* requests it starts, and the ResultsDisplay it renders.                  *)
(***************************************************************************)
\* What apiService.analyzeUrl resolves with: response.data of an answer
\* with the success flag.
AppPayloads ==
    {Payload(IntNum(80), Undef, Undef, Undef),
     Payload(Undef, Undef, DetailedAnalysis(Undef, Undef, Undef, Undef, Undef), Undef),
     Payload(Num(171, 2), AIPresence(IntNum(80), Checks(Bool(TRUE), Bool(FALSE), Undef)),
             DetailedAnalysis(AIPresence(IntNum(80), Checks(Bool(TRUE), Bool(FALSE), Undef)),
                              Module(IntNum(80)), Module(IntNum(100)),
                              Module(IntNum(0)), Module(Num(171, 2))),
             StructuredData(IntNum(90), IntNum(80), IntNum(70))),
     Payload(IntNum(80), AIPresence(IntNum(80), Undef), Undef, Undef),
     Payload(Undef, Undef, Undef, StructuredData(IntNum(90), Undef, IntNum(70)))}

\* What apiService.analyzeUrl throws: an Error with a message (the last
\* one: new Error(errorData.error) for an error field that prints as "").
AnalyzeErrors ==
    {Obj([message |-> Str(<<"A", "n", "a", "l", "y", "s", "i", "s",
                                 " ", "f", "a", "i", "l", "e", "d", " ",
                                 "-", " ", "n", "o", " ", "s", "u", "c",
                                 "c", "e", "s", "s", " ", "f", "l", "a",
                                 "g", " ", "i", "n", " ", "r", "e", "s",
                                 "p", "o", "n", "s", "e">>)]),
     Obj([message |-> Str(<<"S", "e", "r", "v", "e", "r", " ", "e",
                                 "r", "r", "o", "r", ":", " ", "5", "0",
                                 "0", " ", "-", " ", "I", "n", "t", "e",
                                 "r", "n", "a", "l", " ", "S", "e", "r",
                                 "v", "e", "r", " ", "E", "r", "r", "o",
                                 "r">>)]),
     Obj([message |-> Str(<<"N", "o", " ", "r", "e", "s", "p", "o",
                                 "n", "s", "e", " ", "f", "r", "o", "m",
                                 " ", "s", "e", "r", "v", "e", "r", ".",
                                 " ", "P", "l", "e", "a", "s", "e", " ",
                                 "c", "h", "e", "c", "k", " ", "i", "f",
                                 " ", "t", "h", "e", " ", "b", "a", "c",
                                 "k", "e", "n", "d", " ", "i", "s", " ",
                                 "r", "u", "n", "n", "i", "n", "g", " ",
                                 "o", "n", " ", "p", "o", "r", "t", " ",
                                 "5", "0", "0", "0", ".">>)]),
     Obj([message |-> Str(<<>>)])}

\* What the user can have typed into the URL input.
UrlInputs ==
    {<<>>, <<" ">>, <<"a", ".", "i", "o">>, <<" ", "a", ".", "i", "o", " ">>,
     <<"b", ".", "i", "o">>}

\* String.prototype.trim
\* Trim leaving the text as it is.
Trim_none(s) == s

Trim(s) == TrimRight(TrimLeft(s))

\* appRender showing ResultsDisplay whatever the result state.
appRender_always(r) == "mount"

\* {result && <ResultsDisplay result={result} />}: ResultsDisplay is to be
\* evaluated for a result state that is set, and is not part of the page
\* otherwise.
appRender(r) == IF Truthy(r) THEN "mount" ELSE "idle"

InitApp ==
    /\ host = "App"
    /\ AppIdle
    /\ result = Null
    /\ pc = appRender(Null)
    /\ view = NoView
    /\ panels = NoPanels
    /\ botName = <<>>
    /\ botScore = Undef
    /\ csv = Undef
    /\ env = NoEnv
    /\ now = 0

\* onChange={(e) => setUrl(e.target.value)} of the input, which is disabled
\* while loading.
SetUrl(u) ==
    /\ host = "App"
    /\ ~loading
    /\ url # u
    /\ url' = u
    /\ UNCHANGED <<result, pc, view, botName, botScore, panels, csv, envVars,
                   host, loading, error, inflight, serpVars, apiVars>>

\* HandleSubmit leaving the result of the previous analysis in place.
HandleSubmit_keepResult ==
    /\ host = "App"
    /\ ~loading
    /\ Len(inflight) < MaxInflight
    /\ IF Trim(url) = <<>>
       THEN UNCHANGED <<result, pc, view, panels, loading, error, inflight>>
       ELSE /\ loading' = TRUE
            /\ error' = Null
            /\ inflight' = Append(inflight, Trim(url))
            /\ UNCHANGED <<result, pc, view, panels>>
    /\ UNCHANGED <<botName, botScore, csv, envVars, host, url, serpVars, apiVars>>

\* The form is submitted; the input and the button are disabled while
\* loading.  handleSubmit returns for a blank url and calls
\* onAnalyze(url.trim()) otherwise: handleAnalyze up to its await.
\* (MaxInflight only keeps the pending calls finite.)  With the result
\* gone ResultsDisplay unmounts, and SerpPanel with it: its state is
\* dropped, its pending calls stay pending.
HandleSubmit ==
    /\ host = "App"
    /\ ~loading
    /\ Len(inflight) < MaxInflight
    /\ IF Trim(url) = <<>>
       THEN UNCHANGED <<result, pc, view, panels, loading, error, inflight,
                        serp, torn>>
       ELSE /\ loading' = TRUE
            /\ error' = Null
            /\ result' = Null
            /\ inflight' = Append(inflight, Trim(url))
            /\ pc' = appRender(Null)
            /\ view' = NoView
            /\ panels' = NoPanels
            /\ serp' = SerpIdle
            /\ torn' = torn + serp.pending
    /\ UNCHANGED <<botName, botScore, csv, envVars, host, url, late, apiVars>>

\* The sequence s without its i-th element.
Without(s, i) == SubSeq(s, 1, i - 1) \o SubSeq(s, i + 1, Len(s))

\* The i-th pending call resolves: handleAnalyze after its await, then its
\* finally block.
AnalyzeResolve(i, data) ==
    /\ host = "App"
    /\ i \in 1..Len(inflight)
    /\ inflight' = Without(inflight, i)
    /\ result' = data
    /\ loading' = FALSE
    /\ pc' = appRender(data)
    /\ view' = NoView
    /\ panels' = NoPanels
    /\ UNCHANGED <<botName, botScore, csv, envVars, host, error, url, serpVars,
                   apiVars>>

\* AnalyzeReject without the finally block.
AnalyzeReject_noFinally(i, err) ==
    /\ host = "App"
    /\ i \in 1..Len(inflight)
    /\ inflight' = Without(inflight, i)
    /\ error' = Or(Get(err, "message"), Str(<<"F", "a", "i", "l", "e", "d">>))
    /\ UNCHANGED <<result, pc, view, botName, botScore, panels, csv, envVars,
                   host, loading, url, serpVars, apiVars>>

\* The i-th pending call throws: the catch block of handleAnalyze, then its
\* finally block.
AnalyzeReject(i, err) ==
    /\ host = "App"
    /\ i \in 1..Len(inflight)
    /\ inflight' = Without(inflight, i)
    /\ error' = Or(Get(err, "message"),
                   Str(<<"F", "a", "i", "l", "e", "d", " ", "t", "o", " ",
                         "a", "n", "a", "l", "y", "z", "e", " ", "U", "R",
                         "L">>))
    /\ loading' = FALSE
    /\ UNCHANGED <<result, pc, view, botName, botScore, panels, csv, envVars,
                   host, url, serpVars, apiVars>>

NextApp ==
    \/ \E u \in UrlInputs : SetUrl(u)
    \/ HandleSubmit
    \/ \E i \in 1..MaxInflight, data \in AppPayloads : AnalyzeResolve(i, data)
    \/ \E i \in 1..MaxInflight, err \in AnalyzeErrors : AnalyzeReject(i, err)
    \/ Render
    \/ DownloadCSV

SpecApp == InitApp /\ [][NextApp]_vars

\* A pending call of analyzeUrl settles.
Settle ==
    \/ \E i \in 1..MaxInflight, data \in AppPayloads : AnalyzeResolve(i, data)
    \/ \E i \in 1..MaxInflight, err \in AnalyzeErrors : AnalyzeReject(i, err)

\* Every call settles: axios.post is given a timeout of 30 seconds, after
\* which it rejects.
SpecAppFair == SpecApp /\ WF_vars(Settle)

(***************************************************************************)
(* SpecMount: ResultsDisplay as App renders it, and ResultsDisplay given   *)
(* no payload by a caller without App's guard.                             *)
(***************************************************************************)
InitNoPayload ==
    /\ result \in {Null, Undef}
    /\ pc = "mount"
    /\ view = NoView
    /\ botName = <<>>
    /\ botScore = Undef
    /\ StandAlone

InitMount == InitApp \/ InitNoPayload

SpecMount == InitMount /\ [][NextApp]_vars

(***************************************************************************)
(* SpecSerp: App with the SerpPanel (SerpPanel.tsx) of the report it       *)
(* shows.  The panel is mounted exactly while the report is on screen.     *)
(***************************************************************************)
\* What the user can have typed into the keyword input.
SerpKeywords == {<<>>, <<" ">>, <<" ", "s", "e", "o">>}

\* What apiService.serpLookup resolves with.
SerpResponses ==
    {Obj(<<>>), Obj([summary |-> Obj([your_rank |-> IntNum(3)])])}

\* What apiService.serpLookup throws.
SerpErrors ==
    {Obj([message |-> Str(<<"t", "i", "m", "e", "o", "u", "t", " ", "o",
                           "f", " ", "3", "0", "0", "0", "0", "m", "s",
                           " ", "e", "x", "c", "e", "e", "d", "e", "d">>)]),
     Obj([message |-> Str(<<>>)])}

\* onChange={(e) => setKeyword(e.target.value)}
SetKeyword(k) ==
    /\ Rendered
    /\ serp.keyword # k
    /\ serp' = [serp EXCEPT !.keyword = k]
    /\ UNCHANGED <<result, pc, view, botName, botScore, panels, csv, envVars,
                   host, loading, error, url, inflight, torn, late, apiVars>>

\* OnSearch keeping the data of the last search for a blank keyword.
OnSearch_keepData ==
    /\ Rendered
    /\ ~serp.loading
    /\ serp.pending + torn < MaxSerp
    /\ IF Trim(serp.keyword) = <<>>
       THEN serp' = [serp EXCEPT
                        !.error = Str(<<"P", "l", "e", "a", "s", "e", " ",
                                       "e", "n", "t", "e", "r", " ", "a",
                                       " ", "k", "e", "y", "w", "o", "r",
                                       "d">>)]
       ELSE serp' = [serp EXCEPT !.error = Str(<<>>), !.data = Null,
                                 !.loading = TRUE, !.pending = @ + 1]
    /\ UNCHANGED <<result, pc, view, botName, botScore, panels, csv, envVars,
                   host, loading, error, url, inflight, torn, late, apiVars>>

\* The Search button, disabled while loading: onSearch up to its await.
\* (MaxSerp only keeps the pending calls finite.)
OnSearch ==
    /\ Rendered
    /\ ~serp.loading
    /\ serp.pending + torn < MaxSerp
    /\ IF Trim(serp.keyword) = <<>>
       THEN serp' = [serp EXCEPT
                        !.error = Str(<<"P", "l", "e", "a", "s", "e", " ",
                                       "e", "n", "t", "e", "r", " ", "a",
                                       " ", "k", "e", "y", "w", "o", "r",
                                       "d">>),
                        !.data = Null]
       ELSE serp' = [serp EXCEPT !.error = Str(<<>>), !.data = Null,
                                 !.loading = TRUE, !.pending = @ + 1]
    /\ UNCHANGED <<result, pc, view, botName, botScore, panels, csv, envVars,
                   host, loading, error, url, inflight, torn, late, apiVars>>

\* A call of the mounted panel resolves: setData(resp), then the finally
\* block.
SerpResolve(resp) ==
    /\ Rendered
    /\ serp.pending > 0
    /\ serp' = [serp EXCEPT !.data = resp, !.loading = FALSE, !.pending = @ - 1]
    /\ UNCHANGED <<result, pc, view, botName, botScore, panels, csv, envVars,
                   host, loading, error, url, inflight, torn, late, apiVars>>

\* A call of the mounted panel throws: the catch block, then the finally
\* block.
SerpReject(e) ==
    /\ Rendered
    /\ serp.pending > 0
    /\ serp' = [serp EXCEPT
                   !.error = Or(Get(e, "message"),
                                Str(<<"S", "E", "R", "P", " ", "l", "o",
                                      "o", "k", "u", "p", " ", "f", "a",
                                      "i", "l", "e", "d">>)),
                   !.loading = FALSE, !.pending = @ - 1]
    /\ UNCHANGED <<result, pc, view, botName, botScore, panels, csv, envVars,
                   host, loading, error, url, inflight, torn, late, apiVars>>

\* A call of a panel that has been unmounted settles: onSearch goes on after
\* its await and calls setData or setError and then setLoading, with nothing
\* that tells it the panel is gone.
SerpSettleTorn ==
    /\ torn > 0
    /\ torn' = torn - 1
    /\ late' = TRUE
    /\ UNCHANGED <<result, pc, view, botName, botScore, panels, csv, envVars,
                   host, loading, error, url, inflight, serp, apiVars>>

NextSerp ==
    \/ NextApp
    \/ \E k \in SerpKeywords : SetKeyword(k)
    \/ OnSearch
    \/ \E resp \in SerpResponses : SerpResolve(resp)
    \/ \E e \in SerpErrors : SerpReject(e)
    \/ SerpSettleTorn

SpecSerp == InitApp /\ [][NextSerp]_vars

(***************************************************************************)
(* SpecApi: apiService.analyzeUrl (services/api.ts) as a function of what  *)
(* axios.post answers.                                                     *)
(***************************************************************************)
\* The body of an answer with a 2xx status.
OkData ==
    {Fields([success |-> Bool(TRUE), overall_score |-> IntNum(80)]),
     Fields([success |-> Str(<<"y", "e", "s">>)]),
     Fields([success |-> Bool(FALSE),
             error |-> Str(<<"I", "n", "v", "a", "l", "i", "d", " ",
                                  "U", "R", "L">>)]),
     Fields([success |-> Bool(FALSE)]),
     Fields([error |-> Str(<<"I", "n", "v", "a", "l", "i", "d", " ",
                                  "U", "R", "L">>)]),
     Fields([overall_score |-> IntNum(80)]),
     Fields([success |-> Null]),
     Str(<<>>),
     Null}

\* The body of an answer with an error status.
ErrorData ==
    {Undef, Null, Str(<<"<", "h", "t", "m", "l", ">">>), Obj(<<>>),
     Fields([success |-> Bool(FALSE),
             error |-> Str(<<"I", "n", "v", "a", "l", "i", "d", " ",
                                  "U", "R", "L">>)]),
     Fields([error |-> Str(<<"B", "u", "s", "y">>)]),
     Fields([error |-> Str(<<>>)]),
     Fields([error |-> Null]),
     Fields([error |-> Obj([code |-> IntNum(7)])])}

\* Error statuses with their status texts.
ErrorStatus ==
    {<<400, <<"B", "a", "d", " ", "R", "e", "q", "u", "e", "s", "t">>>>,
     <<404, <<"N", "o", "t", " ", "F", "o", "u", "n", "d">>>>,
     <<429, <<>> >>,
     <<500, <<"I", "n", "t", "e", "r", "n", "a", "l", " ", "S", "e", "r",
             "v", "e", "r", " ", "E", "r", "r", "o", "r">>>>,
     <<503, <<"S", "e", "r", "v", "i", "c", "e", " ", "U", "n", "a", "v",
             "a", "i", "l", "a", "b", "l", "e">>>>}

\* What axios.post does: it resolves with a response, or rejects with an
\* AxiosError that carries the response (error status), only the request (no
\* answer came), or neither (the request could not be set up).
AxiosOutcomes ==
    {[resolved |-> TRUE, value |-> Obj([status |-> IntNum(200), data |-> d])] :
        d \in OkData}
    \cup
    {[resolved |-> FALSE,
      value |-> Obj([response |-> Obj([status |-> IntNum(st[1]),
                                       statusText |-> Str(st[2]),
                                       data |-> d]),
                     request |-> Obj(<<>>),
                     message |-> Str(<<"R", "e", "q", "u", "e", "s",
                                          "t", " ", "f", "a", "i", "l",
                                          "e", "d">>)])] :
        st \in ErrorStatus, d \in ErrorData}
    \cup
    {[resolved |-> FALSE,
      value |-> Obj([request |-> Obj(<<>>), message |-> Str(msg)])] :
        msg \in {<<"N", "e", "t", "w", "o", "r", "k", " ", "E", "r", "r",
                   "o", "r">>,
                 <<"t", "i", "m", "e", "o", "u", "t", " ", "o", "f", " ",
                   "3", "0", "0", "0", "0", "m", "s", " ", "e", "x", "c",
                   "e", "e", "d", "e", "d">>}}
    \cup
    {[resolved |-> FALSE, value |-> Fields([message |-> msg])] :
        msg \in {Undef, Str(<<>>),
                 Str(<<"I", "n", "v", "a", "l", "i", "d", " ", "U", "R",
                       "L">>)}}

\* throw new Error(message)
Throw(message) == [kind |-> "throw", error |-> Obj([message |-> Str(ToStr(message))])]

\* The catch block of analyzeUrl.
analyzeUrlCatch(err) ==
    IF Truthy(Get(err, "response"))
    THEN LET errorData == Get(Get(err, "response"), "data")
         IN  IF Truthy(And(errorData, Get(errorData, "error")))
             THEN Throw(Get(errorData, "error"))
             ELSE Throw(Str(<<"S", "e", "r", "v", "e", "r", " ", "e", "r",
                              "r", "o", "r", ":", " ">>
                            \o ToStr(Get(Get(err, "response"), "status"))
                            \o <<" ", "-", " ">>
                            \o ToStr(Get(Get(err, "response"), "statusText"))))
    ELSE IF Truthy(Get(err, "request"))
    THEN Throw(Str(<<"N", "o", " ", "r", "e", "s", "p", "o", "n", "s", "e",
                     " ", "f", "r", "o", "m", " ", "s", "e", "r", "v", "e",
                     "r", ".", " ", "P", "l", "e", "a", "s", "e", " ", "c",
                     "h", "e", "c", "k", " ", "i", "f", " ", "t", "h", "e",
                     " ", "b", "a", "c", "k", "e", "n", "d", " ", "i", "s",
                     " ", "r", "u", "n", "n", "i", "n", "g", " ", "o", "n",
                     " ", "p", "o", "r", "t", " ", "5", "0", "0", "0", ".">>))
    ELSE Throw(Or(Get(err, "message"),
                  Str(<<"F", "a", "i", "l", "e", "d", " ", "t", "o", " ",
                        "a", "n", "a", "l", "y", "z", "e", " ", "U", "R",
                        "L">>)))

\* analyzeUrl: the try block, whose own throws (the TypeError of reading
\* .success of a null body, with the text V8 gives it, and the Error for a
\* missing success flag) are caught by the catch block as well.
analyzeUrl(outcome) ==
    IF ~outcome.resolved THEN analyzeUrlCatch(outcome.value)
    ELSE LET data == Get(outcome.value, "data")
         IN  IF DerefThrows(data)
             THEN analyzeUrlCatch(Obj([message |-> Str(<<"C", "a", "n", "n",
                                                      "o", "t", " ", "r",
                                                      "e", "a", "d", " ",
                                                      "p", "r", "o", "p",
                                                      "e", "r", "t", "i",
                                                      "e", "s", " ", "o",
                                                      "f", " ", "n", "u",
                                                      "l", "l", " ", "(",
                                                      "r", "e", "a", "d",
                                                      "i", "n", "g", " ",
                                                      "'", "s", "u", "c",
                                                      "c", "e", "s", "s",
                                                      "'", ")">>)]))
             ELSE IF Truthy(Get(data, "success"))
             THEN [kind |-> "return", value |-> data]
             ELSE analyzeUrlCatch(Obj([message |-> Str(<<"A", "n", "a", "l",
                                                    "y", "s", "i", "s",
                                                    " ", "f", "a", "i",
                                                    "l", "e", "d", " ",
                                                    "-", " ", "n", "o",
                                                    " ", "s", "u", "c",
                                                    "c", "e", "s", "s",
                                                    " ", "f", "l", "a",
                                                    "g", " ", "i", "n",
                                                    " ", "r", "e", "s",
                                                    "p", "o", "n", "s",
                                                    "e">>)]))

InitApi ==
    /\ response \in AxiosOutcomes
    /\ settled = Undef
    /\ pc = "call"
    /\ result = Null
    /\ view = NoView
    /\ botName = <<>>
    /\ botScore = Undef
    /\ panels = NoPanels
    /\ csv = Undef
    /\ env = NoEnv
    /\ now = 0
    /\ host = "none"
    /\ loading = FALSE
    /\ error = Null
    /\ url = <<>>
    /\ inflight = <<>>
    /\ serp = SerpIdle
    /\ torn = 0
    /\ late = FALSE

\* The call settles.
AnalyzeUrl ==
    /\ pc = "call"
    /\ pc' = "settled"
    /\ settled' = analyzeUrl(response)
    /\ UNCHANGED <<result, view, botName, botScore, panels, csv, envVars, host,
                   loading, error, url, inflight, serpVars, response>>

NextApi == AnalyzeUrl

SpecApi == InitApi /\ [][NextApi]_vars

(***************************************************************************)
(* The payload as the specification reads it.                              *)
(***************************************************************************)
PayloadModule(m) == Get(Get(result, "detailed_analysis"), m)

\* Section 4.1: the container exists and its score is a finite number.
ModuleLive(m) ==
    /\ PayloadModule(m).t = "object"
    /\ Get(PayloadModule(m), "score").t = "number"

\* The container and the score are simply not there.
ModuleAbsent(m) == PayloadModule(m) = Undef

\* The score a category contributes: its own, 0 when it is missing (no
\* container, or no score / a null score in it).
Contribution(m) ==
    IF ModuleLive(m) THEN Get(PayloadModule(m), "score") ELSE IntNum(0)

\* The module's score is a number or missing, never of another type.
WellTyped(m) ==
    \/ ModuleLive(m)
    \/ IsNullish(PayloadModule(m))
    \/ PayloadModule(m).t = "object" /\ IsNullish(Get(PayloadModule(m), "score"))

\* A finite number of the model (a multiple of 1/2), counted in halves.
Halves(x) == x.n * (2 \div x.d)

PayloadChecks == Get(PayloadModule("ai_presence"), "checks")

PayloadStructuredData == Get(result, "structured_data")

(***************************************************************************)
(* Claims.                                                                 *)
(***************************************************************************)
\* C1: the Strategy Review badge is LIVE exactly when all four contributing
\* categories (Answerability, KnowledgeBase, StructuredData, Crawler-
\* Accessibility) are Live; with only Answerability present (score 80) the
\* value is 20 and the badge is STATIC.
C1_StrategyLiveIffAllLive ==
    Rendered =>
        /\ view.strategyReview.label = "LIVE"
              <=> /\ ModuleLive("answerability")
                  /\ ModuleLive("knowledge_base")
                  /\ view.structuredData.label = "LIVE"
                  /\ ModuleLive("crawler_accessibility")
        /\ ( /\ PayloadModule("answerability") = Module(IntNum(80))
             /\ ModuleAbsent("knowledge_base")
             /\ ModuleAbsent("crawler_accessibility")
             /\ PayloadStructuredData = Undef )
              => view.strategyReview = [value |-> IntNum(20), label |-> "STATIC"]

\* C2: with all five modules absent and no overall_score the Overall metric
\* is 72 tagged STATIC, and the Overall badge is LIVE only if every
\* contributing category (all five modules) is Live.
C2_OverallStaticWhenAbsent ==
    Rendered =>
        /\ ( /\ \A m \in ModuleNames : ModuleAbsent(m)
             /\ Get(result, "overall_score") = Undef )
              => view.overall = [value |-> IntNum(72), label |-> "STATIC"]
        /\ view.overall.label = "LIVE" => \A m \in ModuleNames : ModuleLive(m)

\* The badge the report shows for a module.
ModuleLabel(m) ==
    CASE m = "ai_presence"           -> view.aiPresence.label
      [] m = "competitor_analysis"   -> view.competitorLandscape.label
      [] m = "knowledge_base"        -> view.knowledgeBase.label
      [] m = "answerability"         -> view.answerability.label
      [] m = "crawler_accessibility" -> view.aiCrawlerAccess.label

\* C3: a module is resolved as Live exactly when its container exists and
\* its score is a defined, finite number; a null, missing or wrong-typed
\* score is not Live.
C3_ModuleLiveIffNumericScore ==
    Rendered => \A m \in ModuleNames : ModuleLabel(m) = "LIVE" <=> ModuleLive(m)

\* C4: a per-bot metric (ChatGPT, Gemini, Claude) is LIVE only if the
\* AIPresence module is Live, and AIPresence present with
\* checks.robots_gptbot = true gives ChatGPT = 85 tagged LIVE.
C4_BotLiveOnlyIfAIPresenceLive ==
    Rendered =>
        /\ \A row \in {view.chatgpt, view.gemini, view.claude} :
              row.label = "LIVE" => ModuleLive("ai_presence")
        /\ ( /\ ModuleLive("ai_presence")
             /\ Get(PayloadChecks, "robots_gptbot") = Bool(TRUE) )
              => view.chatgpt = [value |-> IntNum(85), label |-> "LIVE"]

\* The checks key the specification names for a bot: robots_<agent>, the agent
\* in lower case.
RobotsKeyOf(name) ==
    CASE name \in {gptbot, <<"G", "P", "T", "B", "o", "t">>} -> "robots_gptbot"
      [] name = googleExtended -> "robots_google-extended"
      [] name \in {claudebot, <<"C", "l", "a", "u", "d", "e", "B", "o", "t">>}
            -> "robots_claudebot"
      [] OTHER -> "robots_bingbot"

\* Explicit allow 85, explicit block 20, anything else 50.
ScoreOfCheck(v) ==
    IF v = Bool(TRUE) THEN IntNum(85)
    ELSE IF v = Bool(FALSE) THEN IntNum(20)
    ELSE IntNum(50)

\* C5: when the AIPresence checks map is present, getAIBotScore(bot) is
\* decided by checks['robots_' + lowercase(bot)] alone: true gives 85, false
\* gives 20, a missing key or a non-boolean value gives 50.
C5_BotScoreFromChecks ==
    PayloadChecks.t = "object" =>
        /\ pc = "return"
              => botScore = ScoreOfCheck(Get(PayloadChecks, RobotsKeyOf(botName)))
        /\ Rendered
              => /\ view.chatgpt.value
                      = ScoreOfCheck(Get(PayloadChecks, "robots_gptbot"))
                 /\ view.gemini.value
                      = ScoreOfCheck(Get(PayloadChecks, "robots_google-extended"))
                 /\ view.claude.value
                      = ScoreOfCheck(Get(PayloadChecks, "robots_claudebot"))

C5_Witness ==
    /\ pc = "return"
    /\ botName = <<"G", "P", "T", "B", "o", "t">>
    /\ Get(PayloadChecks, "robots_gptbot") = Bool(FALSE)
    /\ botScore = IntNum(20)

\* The fixed fallback table of section 4.2.
FallbackOf(name) ==
    CASE name \in {gptbot, <<"G", "P", "T", "B", "o", "t">>} -> IntNum(85)
      [] name = googleExtended -> IntNum(20)
      [] name \in {claudebot, <<"C", "l", "a", "u", "d", "e", "B", "o", "t">>}
            -> IntNum(100)
      [] OTHER -> IntNum(50)

\* C6: when the AIPresence checks map is absent, with or without the
\* container, the bot scores are the defaults ChatGPT 85, Gemini 20, Claude
\* 100, an unrecognized name scores 50, and the three metrics are STATIC.
C6_BotDefaultsWhenNoChecks ==
    IsNullish(PayloadChecks) =>
        /\ pc = "return" => botScore = FallbackOf(botName)
        /\ Rendered
              => /\ view.chatgpt = [value |-> IntNum(85), label |-> "STATIC"]
                 /\ view.gemini = [value |-> IntNum(20), label |-> "STATIC"]
                 /\ view.claude = [value |-> IntNum(100), label |-> "STATIC"]

C6_Witness ==
    /\ Rendered
    /\ ModuleLive("ai_presence")
    /\ PayloadChecks = Undef
    /\ view.claude = [value |-> IntNum(100), label |-> "STATIC"]

\* C7: the Strategy Review value is round((A + K + S + C) / 4), A, K, C the
\* Answerability, KnowledgeBase and CrawlerAccessibility scores, S the
\* StructuredDataComposite on screen, each missing category counting 0 and
\* still counted in the divisor; with detailed_analysis = {} and no
\* structured_data it is 0.  (Round half up: the integer v with
\* v - 1/2 <= sum / 4 < v + 1/2.  A sum with a NaN composite is NaN.)
C7_StrategyValue ==
    ( /\ Rendered
      /\ WellTyped("answerability")
      /\ WellTyped("knowledge_base")
      /\ WellTyped("crawler_accessibility") ) =>
        LET S   == view.structuredData.value
            v   == view.strategyReview.value
            sum == Halves(Contribution("answerability"))
                     + Halves(Contribution("knowledge_base"))
                     + Halves(S)
                     + Halves(Contribution("crawler_accessibility"))
        IN  /\ IF S.t = "number"
               THEN /\ v.t = "number"
                    /\ v.d = 1
                    /\ 8 * v.n <= sum + 4
                    /\ sum + 4 < 8 * (v.n + 1)
               ELSE v = NaN
            /\ ( /\ Get(result, "detailed_analysis") = Obj(<<>>)
                 /\ PayloadStructuredData = Undef ) => v = IntNum(0)

C7_Witness ==
    /\ Rendered
    /\ PayloadModule("answerability") = Module(IntNum(80))
    /\ ModuleAbsent("knowledge_base")
    /\ ModuleAbsent("crawler_accessibility")
    /\ PayloadStructuredData = Undef
    /\ view.strategyReview.value = IntNum(20)

\* C8: the StructuredDataComposite on screen is round((coverage_score +
\* quality_score + completeness_score) / 3) when the structured_data record
\* is there, 0 when it is absent; 90/80/70 gives 80.  (Round half up: the
\* integer v with v - 1/2 <= sum / 3 < v + 1/2.  A sum over a record that
\* lacks one of the three numbers is NaN.)
C8_StructuredDataComposite ==
    Rendered =>
        LET sd  == PayloadStructuredData
            v   == view.structuredData.value
            cov == Get(sd, "coverage_score")
            qua == Get(sd, "quality_score")
            com == Get(sd, "completeness_score")
        IN  /\ IsNullish(sd) => v = IntNum(0)
            /\ ( /\ sd.t = "object"
                 /\ {cov.t, qua.t, com.t} = {"number"} )
                  => LET sum == Halves(cov) + Halves(qua) + Halves(com)
                     IN  /\ v.t = "number"
                         /\ v.d = 1
                         /\ 6 * v.n <= sum + 3
                         /\ sum + 3 < 6 * (v.n + 1)
            /\ ( /\ sd.t = "object"
                 /\ {cov.t, qua.t, com.t} \subseteq {"number", "undefined"}
                 /\ "undefined" \in {cov.t, qua.t, com.t} )
                  => v = NaN
            /\ sd = StructuredData(IntNum(90), IntNum(80), IntNum(70))
                  => v = IntNum(80)

C8_Witness ==
    /\ Rendered
    /\ PayloadStructuredData = StructuredData(IntNum(90), IntNum(80), IntNum(70))
    /\ view.structuredData.value = IntNum(80)

\* C9: the Overall value on screen is the payload's overall_score when that
\* is defined and non-zero, and the placeholder 72 when it is undefined,
\* null or 0.
C9_OverallValue ==
    Rendered =>
        LET o == Get(result, "overall_score")
        IN  /\ (o.t = "number" /\ o # IntNum(0)) => view.overall.value = o
            /\ o \in {Undef, Null, IntNum(0)} => view.overall.value = IntNum(72)

C9_Witness ==
    /\ Rendered
    /\ Get(result, "overall_score") = IntNum(0)
    /\ view.overall.value = IntNum(72)

\* C10: evaluating the component never throws, whatever optional fields of
\* the payload are present, absent, null or of the wrong type.
C10_RenderNeverThrows == pc # "threw"

\* A number of the 0..100 scale.
InRange(x) == x.t = "number" /\ 0 <= x.n /\ x.n <= 100 * x.d

\* A score field that is left out, or a number of the scale.
SuppliedInRange(x) == x = Undef \/ InRange(x)

\* Every score the payload supplies is a number of the scale; a container
\* may be left out, and so may any score field of a container.
PayloadScoresInRange ==
    /\ SuppliedInRange(Get(result, "overall_score"))
    /\ \A m \in ModuleNames :
          \/ IsNullish(PayloadModule(m))
          \/ /\ PayloadModule(m).t = "object"
             /\ SuppliedInRange(Get(PayloadModule(m), "score"))
    /\ \/ IsNullish(PayloadStructuredData)
       \/ /\ PayloadStructuredData.t = "object"
          /\ \A f \in {"coverage_score", "quality_score", "completeness_score"} :
                SuppliedInRange(Get(PayloadStructuredData, f))

\* The eleven metrics of the report.
MetricNames ==
    {"overall", "aiPresence", "chatgpt", "gemini", "claude",
     "competitorLandscape", "strategyReview", "answerability",
     "knowledgeBase", "structuredData", "aiCrawlerAccess"}

\* C11: every score of the report (Overall, AIPresence, CompetitorLandscape,
\* StrategyReview, the three bot scores, Answerability, KnowledgeBase,
\* StructuredData, CrawlerAccess) is a number in [0, 100] whenever every
\* score the payload supplies is in [0, 100], structured_data lacking some
\* of its three score fields included.
C11_ScoresInRange ==
    (Rendered /\ PayloadScoresInRange) =>
        \A k \in MetricNames : InRange(view[k].value)

\* x rounded half up is the integer v.
RoundsTo(x, v) ==
    /\ v.t = "number" /\ v.d = 1
    /\ 2 * v.n <= Halves(x) + 1
    /\ Halves(x) + 1 < 2 * (v.n + 1)

\* C12: the AIPresence card shows the module's rounded score tagged LIVE
\* when the ai_presence module is Live and the placeholder 68 tagged STATIC
\* otherwise; the CompetitorLandscape card likewise with competitor_analysis
\* and 94.
C12_PresenceAndCompetitorCards ==
    Rendered =>
        /\ IF ModuleLive("ai_presence")
           THEN /\ view.aiPresence.label = "LIVE"
                /\ RoundsTo(Get(PayloadModule("ai_presence"), "score"),
                            view.aiPresence.value)
           ELSE view.aiPresence = [value |-> IntNum(68), label |-> "STATIC"]
        /\ IF ModuleLive("competitor_analysis")
           THEN /\ view.competitorLandscape.label = "LIVE"
                /\ RoundsTo(Get(PayloadModule("competitor_analysis"), "score"),
                            view.competitorLandscape.value)
           ELSE view.competitorLandscape =
                    [value |-> IntNum(94), label |-> "STATIC"]

\* The module supplies no score: no container, or a container without a
\* score field.
ModuleScoreAbsent(m) ==
    \/ IsNullish(PayloadModule(m))
    \/ PayloadModule(m).t = "object" /\ Get(PayloadModule(m), "score") = Undef

\* C13: when the answerability, knowledge_base or crawler_accessibility
\* module is absent, its row shows the placeholder (46, 100, 50) tagged
\* STATIC.
C13_LeafPlaceholders ==
    Rendered =>
        /\ ModuleScoreAbsent("answerability") =>
              view.answerability = [value |-> IntNum(46), label |-> "STATIC"]
        /\ ModuleScoreAbsent("knowledge_base") =>
              view.knowledgeBase = [value |-> IntNum(100), label |-> "STATIC"]
        /\ ModuleScoreAbsent("crawler_accessibility") =>
              view.aiCrawlerAccess = [value |-> IntNum(50), label |-> "STATIC"]

\* All three modules are absent and the three placeholders are on screen.
C13_Witness ==
    /\ Rendered
    /\ ModuleScoreAbsent("answerability")
    /\ PayloadModule("knowledge_base") = Module(Undef)
    /\ PayloadModule("crawler_accessibility") = Null
    /\ view.answerability.value = IntNum(46)
    /\ view.knowledgeBase.value = IntNum(100)
    /\ view.aiCrawlerAccess.value = IntNum(50)

\* C14: the StructuredData row is tagged LIVE for every payload, never
\* STATIC; without structured_data its value is 0.
C14_StructuredDataAlwaysLive ==
    Rendered =>
        /\ view.structuredData.label = "LIVE"
        /\ IsNullish(PayloadStructuredData) =>
              view.structuredData.value = IntNum(0)

\* A report of a payload without structured_data: the row reads 0, LIVE.
C14_Witness ==
    /\ Rendered
    /\ PayloadStructuredData = Undef
    /\ view.structuredData = [value |-> IntNum(0), label |-> "LIVE"]

(***************************************************************************)
(* The export as a reader of CSV takes it (RFC 4180): records end at a     *)
(* line break outside quotes, fields at a comma outside quotes, and ""     *)
(* inside a quoted field is one quote.                                     *)
(***************************************************************************)
\* The character at i lies inside quotes: an odd number of quotes precede it.
InsideQuotes(s, i) == Cardinality({j \in 1..(i - 1) : s[j] = "\""}) % 2 = 1

\* The positions where c separates: outside quotes.
Separators(s, c) == {i \in 1..Len(s) : s[i] = c /\ ~InsideQuotes(s, i)}

\* The pieces of s between the separators c.
Split(s, c) ==
    LET P      == Separators(s, c)
        n      == Cardinality(P)
        pos(k) == CHOOSE i \in P : Cardinality({j \in P : j < i}) = k - 1
    IN  [k \in 1..(n + 1) |->
            SubSeq(s, IF k = 1 THEN 1 ELSE pos(k - 1) + 1,
                      IF k = n + 1 THEN Len(s) ELSE pos(k) - 1)]

\* "" read as one quote.
RECURSIVE Undouble(_)
Undouble(s) ==
    IF s = <<>> THEN <<>>
    ELSE IF Head(s) = "\"" /\ Len(s) >= 2
    THEN <<"\"">> \o Undouble(Tail(Tail(s)))
    ELSE <<Head(s)>> \o Undouble(Tail(s))

\* The text of a field: a quoted field without its quotes.
FieldText(f) ==
    IF f # <<>> /\ Head(f) = "\"" THEN Undouble(SubSeq(f, 2, Len(f) - 1)) ELSE f

CsvRecords(s) ==
    LET lines == Split(s, "\n")
    IN  [k \in 1..Len(lines) |->
            LET fields == Split(lines[k], ",")
            IN  [j \in 1..Len(fields) |-> FieldText(fields[j])]]

\* The records of the downloaded file.
Exported == CsvRecords(csv.s)

Downloaded == csv # Undef

\* The column of a module in the flat row.
ColumnOf(m) ==
    CASE m = "ai_presence"           -> 4
      [] m = "competitor_analysis"   -> 5
      [] m = "knowledge_base"        -> 6
      [] m = "answerability"         -> 7
      [] m = "crawler_accessibility" -> 8

\* Not Live in the export's sense: no container, or a score that is
\* undefined or null.
ModuleScoreNullish(m) ==
    \/ IsNullish(PayloadModule(m))
    \/ IsNullish(Get(PayloadModule(m), "score"))

\* C15: in the flat row of toCSV each of the five module columns is the
\* empty string whenever the module is not Live (no container, or a score
\* that is undefined or null), never "0"; a Live module serializes as its
\* score, "0" for the score 0.
C15_ExportModuleColumns ==
    Downloaded =>
        \A m \in ModuleNames :
            LET field == Exported[2][ColumnOf(m)]
            IN  /\ ModuleScoreNullish(m) => field = <<>>
                /\ ModuleLive(m) =>
                      /\ StringToNumber(field) = Get(PayloadModule(m), "score")
                      /\ field # <<>>
                /\ (ModuleLive(m) /\ Get(PayloadModule(m), "score") = IntNum(0))
                      => field = <<"0">>

\* A row with a module of score 0 next to a module without a score.
C15_Witness ==
    /\ Downloaded
    /\ PayloadModule("ai_presence") = Module(IntNum(0))
    /\ PayloadModule("competitor_analysis") = Undef
    /\ PayloadModule("knowledge_base") = Module(Null)
    /\ Exported[2][4] = <<"0">>
    /\ Exported[2][5] = <<>>
    /\ Exported[2][6] = <<>>

\* The columns of the flat row, in order.
FlatColumns ==
    <<"url", "overall_score", "grade", "ai_presence", "competitor_analysis",
      "knowledge_base", "answerability", "crawler_accessibility",
      "structured_data_composite", "analysis_timestamp">>

\* C16: the flat export is exactly one header record and one value record
\* with the same number of fields, the header naming the columns url,
\* overall_score, grade, ai_presence, competitor_analysis, knowledge_base,
\* answerability, crawler_accessibility, structured_data_composite,
\* analysis_timestamp in this order, for every payload.
C16_ExportShape ==
    Downloaded =>
        /\ Len(Exported) = 2
        /\ Len(Exported[1]) = Len(FlatColumns)
        /\ \A i \in 1..Len(FlatColumns) : Key(Exported[1][i]) = FlatColumns[i]
        /\ Len(Exported[2]) = Len(Exported[1])

\* The export of a payload whose url holds a comma.
C16_Witness ==
    /\ Downloaded
    /\ Get(result, "url") = Str(<<"a", ",", "b">>)
    /\ Len(Exported) = 2
    /\ Exported[2][1] = <<"a", ",", "b">>

TogglesOnScreen == <<panels.schemaInformation, panels.crawl>>

\* C18: the two toggles (show detail sections, crawler enabled) change no
\* score and no badge: a report evaluated under other toggles shows the
\* same values and badges for all eleven metrics.
C18_TogglesLeaveMetrics ==
    [][(Rendered /\ Rendered' /\ TogglesOnScreen' # TogglesOnScreen)
          => view' = view]_vars

\* A report evaluated with both toggles on: the Crawl panel and the detail
\* sections are shown, next to a live crawler score.
C18_Witness ==
    /\ Rendered
    /\ panels.crawl
    /\ panels.crawlerDetails
    /\ view.aiCrawlerAccess = [value |-> Num(171, 2), label |-> "LIVE"]

\* C19: given no payload (null, undefined) ResultsDisplay returns the
\* neutral "No Analysis Data" view, with no metric, no panel and no export
\* evaluated and nothing thrown; and App does not render ResultsDisplay
\* while its result state is null.
C19_NoPayload ==
    /\ (host = "none" /\ IsNullish(result) /\ pc # "mount") =>
          /\ pc = "rendered"
          /\ view = NoAnalysisData
          /\ panels = NoPanels
          /\ csv = Undef
    /\ (host = "App" /\ IsNullish(result)) =>
          /\ pc = "idle"
          /\ view = NoView

\* ResultsDisplay has been evaluated for an undefined payload.
C19_Witness ==
    /\ host = "none"
    /\ result = Undef
    /\ pc = "rendered"
    /\ view = NoAnalysisData

\* C20: whenever App shows an error (error is not null) it shows no
\* analysis result (result is null), after any sequence of submissions and
\* settled requests: a failed request leaves no result of an earlier
\* request on screen.
C20_ErrorMeansNoResult ==
    (host = "App" /\ error # Null) => (result = Null /\ view = NoView)

\* A request has failed after an earlier one had succeeded (its report was
\* exported): the error is shown, nothing is pending, no result is left.
C20_Witness ==
    /\ host = "App"
    /\ error # Null
    /\ csv # Undef
    /\ ~loading
    /\ inflight = <<>>
    /\ result = Null

\* C21: a request whose calling component has been unmounted before it
\* settles performs no state update on that component when it settles, at
\* every asynchronous call site.
C21_NoUpdateAfterUnmount == late = FALSE

\* C30: in SerpPanel, onSearch with a blank keyword sets the error "Please
\* enter a keyword", clears data, starts no request and leaves loading
\* false; data and a non-empty error are never both set; and loading is
\* true exactly while a call of the panel is pending, so it is false again
\* once every issued request has settled.
C30_SerpPanel ==
    /\ [](~(Truthy(serp.data) /\ serp.error # Str(<<>>)))
    /\ [](serp.loading <=> serp.pending > 0)
    /\ [][(OnSearch /\ Trim(serp.keyword) = <<>>)
             => /\ serp'.error = Str(<<"P", "l", "e", "a", "s", "e", " ", "e",
                                "n", "t", "e", "r", " ", "a", " ", "k",
                                "e", "y", "w", "o", "r", "d">>)
                /\ serp'.data = Null
                /\ serp'.pending = serp.pending
                /\ ~serp'.loading]_vars

\* A search with a blank keyword has been refused.
C30_Witness ==
    /\ Rendered
    /\ serp.error = Str(<<"P", "l", "e", "a", "s", "e", " ", "e",
                                "n", "t", "e", "r", " ", "a", " ", "k",
                                "e", "y", "w", "o", "r", "d">>)
    /\ serp.data = Null
    /\ ~serp.loading
    /\ serp.pending = 0

\* The message analyzeUrl has thrown.
ThrownMessage == Get(settled.error, "message")

\* What the server answered, whatever its status: the response of a
\* resolved call, or the one an AxiosError carries.
ServerResponse ==
    IF response.resolved THEN response.value ELSE Get(response.value, "response")

\* The error field of the server's answer.
ServerErrorField == Get(Get(ServerResponse, "data"), "error")

StartsWith(s, p) == Len(s) >= Len(p) /\ SubSeq(s, 1, Len(p)) = p

\* C22: analyzeUrl either returns a payload whose success flag is truthy or
\* throws an Error with a non-empty message, never a payload with a falsy
\* success flag; the message is the server's error field when the server
\* supplied one, a "Server error: <status>" message when it responded
\* without one, and a "No response from server" message when no response
\* was received.
C22_AnalyzeUrlOutcome ==
    pc = "settled" =>
        /\ settled.kind = "return" => Truthy(Get(settled.value, "success"))
        /\ settled.kind = "throw" =>
              /\ ThrownMessage.t = "string" /\ ThrownMessage.s # <<>>
              /\ (ServerResponse.t = "object" /\ ServerErrorField.t = "string"
                     /\ ServerErrorField.s # <<>>)
                    => ThrownMessage = ServerErrorField
              /\ (ServerResponse.t = "object" /\ ServerErrorField = Undef)
                    => StartsWith(ThrownMessage.s,
                                  <<"S", "e", "r", "v", "e", "r", " ", "e",
                                    "r", "r", "o", "r", ":", " ">>
                                      \o ToStr(Get(ServerResponse, "status")))
              /\ (ServerResponse = Undef /\ Truthy(Get(response.value, "request")))
                    => StartsWith(ThrownMessage.s,
                                  <<"N", "o", " ", "r", "e", "s", "p", "o",
                                    "n", "s", "e", " ", "f", "r", "o", "m",
                                    " ", "s", "e", "r", "v", "e", "r">>)

\* C23: App surfaces the pending / success / error states of an analysis
\* request: loading is true from the start of handleAnalyze until the
\* request settles, every started request eventually sets loading to false,
\* and a settling request sets exactly one of result (success) and error
\* (failure).
C23_RequestLifecycle ==
    /\ [](inflight # <<>> => loading)
    /\ loading ~> ~loading
    /\ [][Len(inflight') < Len(inflight)
             => /\ ~loading'
                /\ (result' # Null) # (error' # Null)]_vars

\* A request has succeeded: its result is on screen, no error, not loading.
C23_Witness ==
    /\ host = "App"
    /\ ~loading
    /\ inflight = <<>>
    /\ result # Null
    /\ error = Null
    /\ Rendered

\* The displayed value v shows the score x: x rounded half up; for a score
\* outside the model's grid of halves never.
ShowsScore(x, v) == x.t = "number" /\ RoundsTo(x, v)

\* C24: every displayed score is an integer, the underlying value rounded
\* half up, for every payload with fractional scores: the Overall score and
\* the AI Crawler Accessibility row as well as the composites.
C24_DisplayedScoresRounded ==
    (Rendered /\ PayloadScoresInRange) =>
        /\ \A k \in MetricNames :
              view[k].value.t = "number" => view[k].value.d = 1
        /\ Truthy(Get(result, "overall_score")) =>
              ShowsScore(Get(result, "overall_score"), view.overall.value)
        /\ (ModuleLive("crawler_accessibility")
              /\ Truthy(Get(PayloadModule("crawler_accessibility"), "score"))) =>
              ShowsScore(Get(PayloadModule("crawler_accessibility"), "score"),
                         view.aiCrawlerAccess.value)

\* The three rows of the strategy breakdown that fall back on a
\* placeholder: module, row of the report, placeholder.
LeafRows ==
    {<<"answerability", "answerability", 46>>,
     <<"knowledge_base", "knowledgeBase", 100>>,
     <<"crawler_accessibility", "aiCrawlerAccess", 50>>}

\* The row shows the module's own score, rounded or as it is.
ShowsOwnScore(m, k) ==
    /\ ModuleLive(m)
    /\ \/ view[k].value = Get(PayloadModule(m), "score")
       \/ RoundsTo(Get(PayloadModule(m), "score"), view[k].value)

\* C25: a row of Answerability, KnowledgeBase or CrawlerAccessibility that
\* is tagged LIVE shows the module's own score, a score of exactly 0
\* included; a placeholder (46, 100, 50) that is not the module's score is
\* shown only with the STATIC tag.
C25_LiveShowsOwnScore ==
    Rendered =>
        \A row \in LeafRows :
            WellTyped(row[1]) =>
                /\ view[row[2]].label = "LIVE" => ShowsOwnScore(row[1], row[2])
                /\ (view[row[2]].value = IntNum(row[3])
                      /\ ~ShowsOwnScore(row[1], row[2])) =>
                      view[row[2]].label = "STATIC"

\* C26: the structured_data_composite column of the export equals the
\* StructuredData composite of the screen (realStructuredDataScore), also
\* when structured_data is absent or has only some of coverage_score,
\* quality_score and completeness_score.
C26_ExportCompositeMatchesScreen ==
    Downloaded =>
        /\ Len(Exported) = 2
        /\ Len(Exported[2]) = Len(FlatColumns)
        /\ Exported[2][9] = ToStr(realStructuredDataScore(result))

\* The top-level fields of the flat row and their columns.
TopLevelColumns ==
    {<<"url", 1>>, <<"overall_score", 2>>, <<"grade", 3>>,
     <<"analysis_timestamp", 10>>}

\* C28: a top-level field the payload lacks (url, overall_score, grade or
\* analysis_timestamp undefined or null) is the empty string in the flat
\* row, never the text undefined or null.
C28_AbsentTopLevelEmpty ==
    Downloaded =>
        /\ Len(Exported) = 2
        /\ Len(Exported[2]) = Len(FlatColumns)
        /\ \A c \in TopLevelColumns :
              IsNullish(Get(result, c[1])) => Exported[2][c[2]] = <<>>

\* The fields of the value line as they stand in the file, quotes and all.
RawValues == Split(Split(csv.s, "\n")[2], ",")

QuoteCount(s) == Cardinality({i \in 1..Len(s) : s[i] = "\""})

Wrapped(f) == Len(f) >= 2 /\ Head(f) = "\"" /\ f[Len(f)] = "\""

\* The field f of the file is the text t escaped: wrapped in quotes exactly
\* when t holds a comma, a line break or a quote, each quote of t doubled.
Escapes(f, t) ==
    LET special == \E i \in 1..Len(t) : t[i] \in {",", "\n", "\""}
        inner   == IF special THEN SubSeq(f, 2, Len(f) - 1) ELSE f
    IN  /\ special <=> Wrapped(f)
        /\ special => Len(f) >= 2
        /\ Len(inner) = Len(t) + QuoteCount(t)
        /\ QuoteCount(inner) = 2 * QuoteCount(t)
        /\ Undouble(inner) = t

\* C29: toCSV escapes every value so that the row stays parseable: every
\* quote of a value is doubled and a value with a comma, a line break or a
\* quote is wrapped in quotes; a url with a comma leaves the value line at
\* its ten fields and reads back as the url.
C29_ValuesEscaped ==
    Downloaded =>
        /\ Len(Exported) = 2
        /\ Len(RawValues) = Len(FlatColumns)
        /\ \A i \in 1..Len(FlatColumns) :
              Escapes(RawValues[i], ToStr(csvValues(result)[i]))
        /\ Get(result, "url").t = "string" =>
              Exported[2][1] = Get(result, "url").s

\* The export of a url with a quote in it: doubled and wrapped.
C29_Witness ==
    /\ Downloaded
    /\ Get(result, "url") = Str(<<"a", "\"", "b">>)
    /\ Len(RawValues) = Len(FlatColumns)
    /\ RawValues[1] = <<"\"", "a", "\"", "\"", "b", "\"">>

\* A url as AnalysisForm hands it on: not empty, no blank at either end.
TrimmedUrl(u) == u # <<>> /\ Head(u) # " " /\ u[Len(u)] # " "

\* C27: at most one analysis request is in flight at any time and none is
\* started for a blank url: onAnalyze gets a non-empty trimmed url only, and
\* while loading is true no second handleAnalyze starts before the first has
\* settled.
C27_OneRequestInFlight ==
    /\ [](host = "App" =>
            /\ Len(inflight) <= 1
            /\ loading <=> Len(inflight) = 1
            /\ \A i \in 1..Len(inflight) : TrimmedUrl(inflight[i]))
    /\ [][(host = "App" /\ loading) => Len(inflight') <= Len(inflight)]_vars

\* A request for the trimmed text of the input is in flight.
C27_Witness ==
    /\ host = "App"
    /\ loading
    /\ url = <<" ", "a", ".", "i", "o", " ">>
    /\ inflight = << <<"a", ".", "i", "o">> >>

====
